---- MODULE Spec2Model ----
(***************************************************************************)
(* A model of EHeapQ<T, Compare> (src/fext/eheapq.hpp): an array-backed    *)
(* binary min-heap with a key -> position index, a capacity, and caches    *)
(* for the last inserted and the maximal element.                          *)
(*                                                                         *)
(* T is int and Compare is std::less<int>, as instantiated in              *)
(* src/fext/main.cpp:9.  The comparator may also fail, as the comparator   *)
(* of the Python binding does (PyObjectRichCmp, src/fext/eheapq.cpp:51):   *)
(* every call takes a number `fuel`; fuel = k > 0 makes the k-th           *)
(* comparison of the call throw, fuel = 0 makes none throw.                *)
(*                                                                         *)
(* Positions are 0-based as in the code; the element at position p of the  *)
(* backing vector is heap[p + 1].                                          *)
(***************************************************************************)
EXTENDS Integers, Sequences, FiniteSets, TLC

\* Bounds of the model.
MaxItem == 5      \* the items are 1 .. MaxItem
MaxLen == 5       \* push and pushpop are not called on a longer heap
MaxFuel == 3      \* a failing comparator fails at one of its first MaxFuel
                  \* comparisons of a call
MaxCap == 2       \* set_size is called with 0 .. MaxCap
MaxRemoves == 2   \* remove is called on a present key at most MaxRemoves times

\* std::numeric_limits<long unsigned int>::max(); any number above every
\* reachable length behaves the same, this is the largest TLC can hold.
EHEAPQ_DEFAULT_SIZE == 2147483647

Items == 1 .. MaxItem
NoItem == 0       \* the value of a T that was never assigned

VARIABLES
  heap,           \* std::vector<T> * heap
  index_map,      \* std::unordered_map<T, size_t> * index_map
  size,           \* long unsigned int size (the capacity)
  last_item,      \* T last_item
  last_item_set,  \* bool last_item_set
  max_item,       \* T max_item
  max_item_set,   \* bool max_item_set
  ended,          \* the process ended: an exception no caller catches
                  \* (std::terminate), or undefined behaviour
  removes,        \* history: the number of calls of remove with a present key
  admitted,       \* history: the item most recently stored by push,
                  \* pushpop or replace (NoItem: none yet)
  phase,          \* the driver's position: "free", "push", "pop"
  pushed,         \* driver: the values pushed so far
  out             \* driver: the values popped so far, in order

vars == <<heap, index_map, size, last_item, last_item_set, max_item,
          max_item_set, ended, removes, admitted, phase, pushed, out>>

------------------------------------------------------------------------------
\* Helpers for the containers.

Range(s) == {s[i] : i \in 1 .. Len(s)}

\* std::less<int>::operator()
comp(a, b) == a < b

\* unordered_map::insert: no effect when the key is present
MapInsert(map, k, v) ==
  IF k \in DOMAIN map THEN map
  ELSE [x \in (DOMAIN map) \cup {k} |-> IF x = k THEN v ELSE map[x]]

\* unordered_map::erase(key)
MapErase(map, k) == [x \in (DOMAIN map) \ {k} |-> map[x]]

\* vector::pop_back
PopBack(arr) == SubSeq(arr, 1, Len(arr) - 1)

\* tmp1 = arr[i]; tmp2 = arr[j]; arr[i] = tmp2; arr[j] = tmp1 (0-based)
Swap(arr, i, j) ==
  [arr EXCEPT ![i + 1] = arr[j + 1], ![j + 1] = arr[i + 1]]

------------------------------------------------------------------------------
\* The object a method runs on: the fields of EHeapQ, plus the call's
\* remaining fuel, the exception in flight ("none": no exception), the value
\* returned, and the ghost field admit (the item the call stored).

Self(fuel) ==
  [heap |-> heap, index_map |-> index_map, size |-> size,
   last_item |-> last_item, last_item_set |-> last_item_set,
   max_item |-> max_item, max_item_set |-> max_item_set,
   fuel |-> fuel, exc |-> "none", result |-> NoItem, admit |-> NoItem]

Throws(q) == q.exc # "none"

Throw(q, e) == [q EXCEPT !.exc = e]

\* One evaluation of this->comp(a, b): it throws ObjCmpErr when the fuel
\* runs out.
Tick(q) ==
  IF q.fuel = 1 THEN [q EXCEPT !.exc = "ObjCmpErr", !.fuel = 0]
  ELSE IF q.fuel > 1 THEN [q EXCEPT !.fuel = @ - 1]
  ELSE q

\* this->index_map->at(k) = v: std::out_of_range when k is no key
SetAt(q, k, v) ==
  IF k \in DOMAIN q.index_map THEN [q EXCEPT !.index_map[k] = v]
  ELSE Throw(q, "out_of_range")

set_last_item(q, item) ==
  [q EXCEPT !.last_item = item, !.last_item_set = TRUE]

set_max_item(q, item) ==
  [q EXCEPT !.max_item = item, !.max_item_set = TRUE]

maybe_del_last_item(q, item) ==
  IF q.last_item_set /\ q.last_item = item
  THEN [q EXCEPT !.last_item_set = FALSE] ELSE q

maybe_del_max_item(q, item) ==
  IF q.max_item_set /\ q.max_item = item
  THEN [q EXCEPT !.max_item_set = FALSE] ELSE q

\* maybe_adjust_max is noexcept: a throwing comparator ends the process.
maybe_adjust_max(q, item) ==
  IF ~q.max_item_set THEN q
  ELSE LET c == Tick(q) IN
       IF Throws(c) THEN Throw(c, "terminate")
       ELSE IF comp(c.max_item, item) THEN [c EXCEPT !.max_item = item]
       ELSE c

------------------------------------------------------------------------------
\* The two sift passes.

\* The while loop of siftdown: move the item at pos towards startpos while it
\* precedes its parent.
RECURSIVE siftdownLoop(_, _, _)
siftdownLoop(q, startpos, pos) ==
  IF ~(pos > startpos) THEN q
  ELSE LET parentpos == (pos - 1) \div 2
           newitem == q.heap[pos + 1]
           parent == q.heap[parentpos + 1]
           c == Tick(q)
       IN IF Throws(c) THEN c
          ELSE IF ~comp(newitem, parent) THEN c
          ELSE LET s1 == [c EXCEPT !.heap = Swap(c.heap, parentpos, pos)]
                   s2 == SetAt(s1, newitem, parentpos)
                   s3 == IF Throws(s2) THEN s2 ELSE SetAt(s2, parent, pos)
               IN IF Throws(s3) THEN s3
                  ELSE siftdownLoop(s3, startpos, parentpos)

\* A siftdown that leaves the item where it is.
siftdownNone(q, startpos, pos) == q

siftdown(q, startpos, pos) ==
  IF Len(q.heap) = 0 THEN q ELSE siftdownLoop(q, startpos, pos)

\* The choice of the child, the other way round.
SmallerChildInverted(arr, childpos) ==
  IF comp(arr[childpos + 1], arr[childpos + 2]) THEN childpos + 1
  ELSE childpos

\* Which child the loop of siftup moves up: the left one, or the right one
\* when there is one and the left one does not precede it (cmp == 0).
SmallerChild(arr, childpos) ==
  IF comp(arr[childpos + 1], arr[childpos + 2]) THEN childpos
  ELSE childpos + 1

\* The while loop of siftup: bubble the smaller child up until pos is a
\* leaf; the result carries the final pos in the field result.
RECURSIVE siftupLoop(_, _)
siftupLoop(q, pos) ==
  LET endpos == Len(q.heap)
      limit == endpos \div 2
  IN IF ~(pos < limit) THEN [q EXCEPT !.result = pos]
     ELSE LET left == 2 * pos + 1
              c == IF left + 1 < endpos THEN Tick(q) ELSE q
          IN IF Throws(c) THEN c
             ELSE LET childpos == IF left + 1 < endpos
                                  THEN SmallerChild(c.heap, left) ELSE left
                      tmp1 == c.heap[childpos + 1]
                      tmp2 == c.heap[pos + 1]
                      s1 == [c EXCEPT !.heap = Swap(c.heap, childpos, pos)]
                      s2 == SetAt(s1, tmp2, childpos)
                      s3 == IF Throws(s2) THEN s2 ELSE SetAt(s2, tmp1, pos)
                  IN IF Throws(s3) THEN s3 ELSE siftupLoop(s3, childpos)

siftup(q, pos) ==
  LET s == siftupLoop([q EXCEPT !.result = pos], pos)
  IN IF Throws(s) THEN s
     ELSE siftdown([s EXCEPT !.result = q.result], pos, s.result)

------------------------------------------------------------------------------
\* The public methods.  Each takes the object and returns it as the call
\* leaves it: exc is the exception that propagates to the caller.

get_top(q) ==
  IF Len(q.heap) = 0 THEN Throw(q, "Empty")
  ELSE [q EXCEPT !.result = q.heap[1]]

\* A get_last that looks at the record of the last item first.
get_last_flagFirst(q) ==
  IF ~q.last_item_set THEN Throw(q, "NoLast")
  ELSE IF Len(q.heap) = 0 THEN Throw(q, "Empty")
  ELSE [q EXCEPT !.result = q.last_item]

get_last(q) ==
  IF Len(q.heap) = 0 THEN Throw(q, "Empty")
  ELSE IF ~q.last_item_set THEN Throw(q, "NoLast")
  ELSE [q EXCEPT !.result = q.last_item]

\* The for loop of get_max, from position i on, with the maximum so far.
RECURSIVE scanMax(_, _, _)
scanMax(q, i, result) ==
  IF ~(i < Len(q.heap)) THEN [q EXCEPT !.result = result]
  ELSE LET c == Tick(q)
       IN IF Throws(c) THEN c
          ELSE scanMax(c, i + 1, IF comp(result, c.heap[i + 1])
                                 THEN c.heap[i + 1] ELSE result)

\* A get_max whose scan starts one position later on a heap of odd length
\* above 1.
get_max_lateStart(q) ==
  IF Len(q.heap) = 0 THEN Throw(q, "Empty")
  ELSE IF q.max_item_set THEN [q EXCEPT !.result = q.max_item]
  ELSE LET n == Len(q.heap)
           first == IF (n + 1) \div 2 < n THEN (n + 1) \div 2 ELSE n \div 2
           s == scanMax(q, first + 1, q.heap[first + 1])
       IN IF Throws(s) THEN s ELSE [s EXCEPT !.max_item = s.result]

get_max(q) ==
  IF Len(q.heap) = 0 THEN Throw(q, "Empty")
  ELSE IF q.max_item_set THEN [q EXCEPT !.result = q.max_item]
  ELSE LET half == Len(q.heap) \div 2
           s == scanMax(q, half + 1, q.heap[half + 1])
       IN IF Throws(s) THEN s ELSE [s EXCEPT !.max_item = s.result]

pushpop(q, item) ==
  IF item \in DOMAIN q.index_map THEN Throw(q, "AlreadyPresent")
  ELSE IF Len(q.heap) = 0 THEN [q EXCEPT !.result = item]
  ELSE LET c == Tick(q)
       IN IF Throws(c) THEN c
          ELSE IF ~comp(c.heap[1], item) THEN [c EXCEPT !.result = item]
          ELSE LET to_return == c.heap[1]
                   s1 == [c EXCEPT
                            !.heap[1] = item,
                            !.index_map =
                               MapErase(MapInsert(@, item, 0), to_return)]
                   s2 == siftup(s1, 0)
                   s3 == maybe_del_max_item(set_last_item(s2, item), item)
                   s4 == maybe_adjust_max(s3, item)
               IN IF Throws(s2) THEN s2
                  ELSE IF Throws(s4) THEN s4
                  ELSE [s4 EXCEPT !.result = to_return, !.admit = item]

\* A push that never looks at the capacity.
push_noCap(q, item) ==
  IF item \in DOMAIN q.index_map THEN Throw(q, "AlreadyPresent")
  ELSE set_last_item([q EXCEPT !.index_map = MapInsert(@, item, Len(q.heap)),
                               !.heap = Append(@, item)], item)

push(q, item) ==
  IF item \in DOMAIN q.index_map THEN Throw(q, "AlreadyPresent")
  ELSE IF Len(q.heap) = q.size
  THEN LET r == pushpop(q, item)
       IN IF Throws(r) THEN r ELSE [r EXCEPT !.result = NoItem]
  ELSE LET s1 == [q EXCEPT !.index_map = MapInsert(@, item, Len(q.heap)),
                           !.heap = Append(@, item)]
           s2 == siftdown(s1, 0, Len(s1.heap) - 1)
           s3 == set_last_item(s2, item)
           s4 == IF Len(s3.heap) = 1 THEN set_max_item(s3, item)
                 ELSE maybe_adjust_max(s3, item)
       IN IF Throws(s2)
          THEN \* catch (...): erase(item), pop_back(), throw
               [s2 EXCEPT !.index_map = MapErase(@, item),
                          !.heap = PopBack(@)]
          ELSE IF Throws(s4) THEN s4
          ELSE [s4 EXCEPT !.admit = item]

pop(q) ==
  IF Len(q.heap) = 0 THEN Throw(q, "Empty")
  ELSE LET n == Len(q.heap)
           result == q.heap[1]
           s1 == IF n > 1
                 THEN SetAt([q EXCEPT !.heap[1] = q.heap[n]], q.heap[n], 0)
                 ELSE q
           s2 == [s1 EXCEPT !.heap = PopBack(@),
                            !.index_map = MapErase(@, result)]
           s3 == siftup(s2, 0)
           s4 == maybe_del_max_item(maybe_del_last_item(s3, result), result)
       IN IF Throws(s1) THEN s1
          ELSE IF Throws(s3) THEN s3
          ELSE [s4 EXCEPT !.result = result]

\* The while loop of set_size.
RECURSIVE shrink(_)
shrink(q) ==
  IF ~(Len(q.heap) > q.size) THEN q
  ELSE LET p == pop(q) IN IF Throws(p) THEN p ELSE shrink(p)

\* A set_size that stores the capacity and pops nothing.
set_size_noShrink(q, newsize) == [q EXCEPT !.size = newsize]

set_size(q, newsize) ==
  LET r == shrink([q EXCEPT !.size = newsize])
  IN IF Throws(r) THEN r ELSE [r EXCEPT !.result = NoItem]

replace(q, item) ==
  IF Len(q.heap) = 0 THEN Throw(q, "Empty")
  ELSE IF item \in DOMAIN q.index_map THEN Throw(q, "AlreadyPresent")
  ELSE LET result == q.heap[1]
           s1 == [q EXCEPT
                    !.index_map = MapInsert(MapErase(@, result), item, 0),
                    !.heap[1] = item]
           s2 == siftup(s1, 0)
           s3 == maybe_del_max_item(set_last_item(s2, result), result)
           s4 == maybe_adjust_max(s3, result)
       IN IF Throws(s2) THEN s2
          ELSE IF Throws(s4) THEN s4
          ELSE [s4 EXCEPT !.result = result, !.admit = item]

\* The statements of remove after the label end.
removeEnd(q, item) == maybe_del_last_item(maybe_del_max_item(q, item), item)

\* A remove that truncates the vector and leaves the key in the index.
remove_keepKey(q, item, crash) ==
  IF item \notin DOMAIN q.index_map THEN Throw(q, "NotFound")
  ELSE removeEnd([q EXCEPT !.heap = PopBack(@)], item)

\* remove writes heap->data()[idx] with the idx the index gives.  When idx is
\* not a position of the vector the write is undefined behaviour: with
\* crash the process ends there, without it the write lands in the vector's
\* spare storage and the call goes on.  On an empty vector the read of
\* data()[size - 1] and pop_back() are undefined too, and nothing is known
\* of the object afterwards.
remove(q, item, crash) ==
  LET n == Len(q.heap)
      idx == q.index_map[item]
      drop == [q EXCEPT !.heap = PopBack(@),
                        !.index_map = MapErase(@, item)]
  IN IF item \notin DOMAIN q.index_map THEN Throw(q, "NotFound")
     ELSE IF n > 0 /\ item = q.heap[n] THEN removeEnd(drop, item)
     ELSE IF n = 0 THEN Throw(q, "UB")
     ELSE IF ~(idx < n)
     THEN IF crash THEN Throw(q, "UB") ELSE removeEnd(drop, item)
     ELSE LET s1 == [q EXCEPT
                       !.heap = PopBack([@ EXCEPT ![idx + 1] = q.heap[n]]),
                       !.index_map = MapErase(@, item)]
              s2 == siftup(s1, idx)
              s3 == siftdown(s2, 0, idx)
          IN IF ~(idx < Len(s1.heap)) THEN removeEnd(s1, item)
             ELSE IF Throws(s2) THEN s2
             ELSE IF Throws(s3) THEN s3
             ELSE removeEnd(s3, item)

------------------------------------------------------------------------------
\* The state machine: one action per public method, called by any caller in
\* any order with any item.

\* EHeapQ::EHeapQ(size) with the default size, before any call.
Init ==
  /\ heap = <<>>
  /\ index_map = <<>>
  /\ size = EHEAPQ_DEFAULT_SIZE
  /\ last_item = NoItem
  /\ last_item_set = FALSE
  /\ max_item = NoItem
  /\ max_item_set = FALSE
  /\ ended = FALSE
  /\ removes = 0
  /\ admitted = NoItem
  /\ phase = "free"
  /\ pushed = {}
  /\ out = <<>>

\* A call left the object as r; the caller catches the exceptions in caught
\* and no others.
Commit(r, caught) ==
  /\ heap' = r.heap
  /\ index_map' = r.index_map
  /\ size' = r.size
  /\ last_item' = r.last_item
  /\ last_item_set' = r.last_item_set
  /\ max_item' = r.max_item
  /\ max_item_set' = r.max_item_set
  /\ ended' = (Throws(r) /\ r.exc \notin caught)
  /\ admitted' = IF r.admit # NoItem THEN r.admit ELSE admitted

Free == ~ended /\ phase = "free" /\ UNCHANGED <<phase, pushed, out>>

\* The callers are the handlers of the Python binding (src/fext/eheapq.cpp),
\* each with the catch clauses it has.  In this specification the comparator
\* is std::less<int>, which never fails: the fuel is 0.

\* ExtHeapQueue_push
Push(item) ==
  /\ Free
  /\ Len(heap) < MaxLen \/ Len(heap) = size
  /\ Commit(push(Self(0), item), {"ObjCmpErr", "AlreadyPresent"})
  /\ UNCHANGED removes

\* ExtHeapQueue_pushpop
PushPop(item) ==
  /\ Free
  /\ Commit(pushpop(Self(0), item), {"ObjCmpErr", "AlreadyPresent"})
  /\ UNCHANGED removes

\* ExtHeapQueue_pop
Pop ==
  /\ Free
  /\ Commit(pop(Self(0)), {"Empty"})
  /\ UNCHANGED removes

\* ExtHeapQueue_replace
Replace(item) ==
  /\ Free
  /\ Commit(replace(Self(0), item),
            {"ObjCmpErr", "Empty", "NotFound", "AlreadyPresent"})
  /\ UNCHANGED removes

\* ExtHeapQueue_remove
Remove(item, crash) ==
  /\ Free
  /\ removes < MaxRemoves
  /\ Commit(remove(Self(0), item, crash), {"Empty", "NotFound"})
  /\ removes' = IF item \in DOMAIN index_map THEN removes + 1 ELSE removes

\* ExtHeapQueue_init: set_size with the size given, or with get_size() when
\* none is given.
SetSize(newsize) ==
  /\ Free
  /\ Commit(set_size(Self(0), newsize), {})
  /\ UNCHANGED removes

\* ExtHeapQueue_top
GetTop ==
  /\ Free
  /\ Commit(get_top(Self(0)), {"Empty"})
  /\ UNCHANGED removes

\* ExtHeapQueue_last
GetLast ==
  /\ Free
  /\ Commit(get_last(Self(0)), {"NoLast", "Empty"})
  /\ UNCHANGED removes

\* ExtHeapQueue_max
GetMax ==
  /\ Free
  /\ Commit(get_max(Self(0)), {"Empty"})
  /\ UNCHANGED removes

Next ==
  \/ \E item \in Items : Push(item)
  \/ \E item \in Items : PushPop(item)
  \/ Pop
  \/ \E item \in Items : Replace(item)
  \/ \E item \in Items, crash \in BOOLEAN : Remove(item, crash)
  \/ \E newsize \in (0 .. MaxCap) \cup {size} : SetSize(newsize)
  \/ GetTop
  \/ GetLast
  \/ GetMax

Spec == Init /\ [][Next]_vars

------------------------------------------------------------------------------
\* The references of the Python binding.  A handler called with the comparator
\* failing as fuel says leaves the object as obj; caught are the exceptions it
\* catches, incs are the objects it executes Py_INCREF on, decs those it
\* executes Py_DECREF on, and ret is the object it returns to the interpreter
\* (NoItem: None or NULL).  The interpreter owns the reference to a returned
\* object.

ExtHeapQueue_push(item, fuel) ==
  LET r == push(Self(fuel), item)
  IN [obj |-> r, caught |-> {"ObjCmpErr", "AlreadyPresent"},
      incs |-> IF Throws(r) THEN <<>> ELSE <<item>>,
      decs |-> <<>>, ret |-> NoItem]

ExtHeapQueue_pushpop(item, fuel) ==
  LET r == pushpop(Self(fuel), item)
  IN [obj |-> r, caught |-> {"ObjCmpErr", "AlreadyPresent"},
      incs |-> IF Throws(r) THEN <<>> ELSE <<item, r.result>>,
      decs |-> <<>>, ret |-> IF Throws(r) THEN NoItem ELSE r.result]

ExtHeapQueue_pop(fuel) ==
  LET r == pop(Self(fuel))
  IN [obj |-> r, caught |-> {"Empty"},
      incs |-> <<>>, decs |-> <<>>,
      ret |-> IF Throws(r) THEN NoItem ELSE r.result]

ExtHeapQueue_remove(item, fuel, crash) ==
  LET r == remove(Self(fuel), item, crash)
  IN [obj |-> r, caught |-> {"Empty", "NotFound"},
      incs |-> <<>>,
      decs |-> IF Throws(r) THEN <<>> ELSE <<item>>, ret |-> NoItem]

ExtHeapQueue_replace(item, fuel) ==
  LET r == replace(Self(fuel), item)
  IN [obj |-> r,
      caught |-> {"ObjCmpErr", "Empty", "NotFound", "AlreadyPresent"},
      incs |-> <<item>>, decs |-> <<>>,
      ret |-> IF Throws(r) THEN NoItem ELSE r.result]

ExtHeapQueue_init(newsize, fuel) ==
  LET r == set_size(Self(fuel), newsize)
  IN [obj |-> r, caught |-> {}, incs |-> <<>>, decs |-> <<>>, ret |-> NoItem]

------------------------------------------------------------------------------
\* The catch clauses of the handlers: what each caught exception becomes for
\* the interpreter, "KeyError" or "ValueError" (PyErr_SetString and NULL), or
\* "value" (a normal return value).

catch_top == ("Empty" :> "KeyError")

catch_last == ("NoLast" :> "value" @@ "Empty" :> "KeyError")

catch_pushpop == ("ObjCmpErr" :> "ValueError" @@ "AlreadyPresent" :> "ValueError")

catch_push == ("ObjCmpErr" :> "ValueError" @@ "AlreadyPresent" :> "ValueError")

catch_pop == ("Empty" :> "KeyError")

catch_remove == ("Empty" :> "KeyError" @@ "NotFound" :> "ValueError")

catch_replace ==
  ("ObjCmpErr" :> "ValueError" @@ "Empty" :> "KeyError"
     @@ "NotFound" :> "ValueError" @@ "AlreadyPresent" :> "ValueError")

catch_max == ("Empty" :> "KeyError")

\* What the interpreter sees of a call that left the object as r, under the
\* catch clauses: a value, a Python exception, or a C++ exception that leaves
\* the handler.
Surfaces(r, catches) ==
  IF ~Throws(r) THEN "value"
  ELSE IF r.exc \in DOMAIN catches THEN catches[r.exc]
  ELSE "uncaught"

------------------------------------------------------------------------------
\* The driver of src/fext/main.cpp: push distinct values into a heap, then
\* pop in a loop guarded by get_size() != 0.  No exception is caught.

\* auto a = EHeapQ<int>(10): the capacity of the driver's heap.
DriverSize == 10

SortInit ==
  /\ heap = <<>>
  /\ index_map = <<>>
  /\ size = DriverSize
  /\ last_item = NoItem
  /\ last_item_set = FALSE
  /\ max_item = NoItem
  /\ max_item_set = FALSE
  /\ ended = FALSE
  /\ removes = 0
  /\ admitted = NoItem
  /\ phase = "push"
  /\ pushed = {}
  /\ out = <<>>

\* for (auto i: l) a.push(i);
SortPush(item) ==
  /\ ~ended
  /\ phase = "push"
  /\ item \notin pushed
  /\ Cardinality(pushed) < MaxLen
  /\ Commit(push(Self(0), item), {})
  /\ pushed' = pushed \cup {item}
  /\ UNCHANGED <<phase, out, removes>>

\* while (a.get_size() != 0) std::cout << a.pop() << std::endl;
SortPop ==
  /\ ~ended
  /\ phase \in {"push", "pop"}
  /\ size # 0
  /\ LET r == pop(Self(0))
     IN /\ Commit(r, {})
        /\ out' = IF Throws(r) THEN out ELSE Append(out, r.result)
  /\ phase' = "pop"
  /\ UNCHANGED <<pushed, removes>>

SortNext ==
  \/ \E item \in Items : SortPush(item)
  \/ SortPop

SortSpec == SortInit /\ [][SortNext]_vars

------------------------------------------------------------------------------
\* A driver as src/fext/main.cpp with any capacity: EHeapQ<int>(K), then
\* pushes of distinct values.  No exception is caught.

TopKInit ==
  /\ heap = <<>>
  /\ index_map = <<>>
  /\ size \in 0 .. MaxLen
  /\ last_item = NoItem
  /\ last_item_set = FALSE
  /\ max_item = NoItem
  /\ max_item_set = FALSE
  /\ ended = FALSE
  /\ removes = 0
  /\ admitted = NoItem
  /\ phase = "topk"
  /\ pushed = {}
  /\ out = <<>>

\* for (auto i: l) a.push(i);
TopKPush(item) ==
  /\ ~ended
  /\ phase = "topk"
  /\ item \notin pushed
  /\ Commit(push(Self(0), item), {})
  /\ pushed' = pushed \cup {item}
  /\ UNCHANGED <<phase, out, removes>>

TopKNext == \E item \in Items : TopKPush(item)

TopKSpec == TopKInit /\ [][TopKNext]_vars

------------------------------------------------------------------------------
\* Properties.

\* No call has failed by an exception that left the object half changed: in
\* Spec every such exception ends the process.
Clean == ~ended

\* Positions p (0-based) of the backing sequence.
Positions == 0 .. Len(heap) - 1

IndexConsistent ==
  /\ \A p \in Positions :
        /\ heap[p + 1] \in DOMAIN index_map
        /\ index_map[heap[p + 1]] = p
  /\ Cardinality(DOMAIN index_map) = Len(heap)

\* C1: in every state reached by successfully returning calls, every element
\* stored at position p has index_map[element] = p, and the index map has as
\* many entries as the backing sequence has elements.
C1_IndexConsistency == Clean => IndexConsistent

HeapOrder(arr) ==
  \A i \in 1 .. Len(arr) - 1 : ~comp(arr[i + 1], arr[((i - 1) \div 2) + 1])

C3_RemoveExact ==
  Clean =>
    \A x \in Range(heap), crash \in BOOLEAN :
       LET r == remove(Self(0), x, crash)
       IN ~Throws(r) =>
            /\ Len(r.heap) = Len(heap) - 1
            /\ x \notin Range(r.heap)
            /\ Range(r.heap) = Range(heap) \ {x}

\* C4: no two positions of the backing sequence hold equal-keyed elements.
C4_KeyUnique ==
  \A p, q \in Positions : p # q => heap[p + 1] # heap[q + 1]

\* The length and the capacity a call leaves, for a call whose exception (if
\* any) its caller catches.
Bounded(r) == Len(r.heap) <= r.size

\* C5: after every call that returns to a running caller the length is at
\* most the capacity, for every capacity; this holds as well right after a
\* push, pushpop or replace whose comparator failed (an exception their caller
\* catches); and push on a heap whose length equals its capacity does not
\* grow it.
C5_CapacityBound ==
  Clean =>
    /\ Len(heap) <= size
    /\ \A item \in Items, fuel \in 0 .. MaxFuel :
          LET r1 == push(Self(fuel), item)
              r2 == pushpop(Self(fuel), item)
              r3 == replace(Self(fuel), item)
          IN /\ r1.exc \in {"none", "ObjCmpErr", "AlreadyPresent"}
                  => Bounded(r1)
             /\ r2.exc \in {"none", "ObjCmpErr", "AlreadyPresent"}
                  => Bounded(r2)
             /\ r3.exc \in {"none", "ObjCmpErr", "Empty", "AlreadyPresent"}
                  => Bounded(r3)
             /\ Len(heap) = size => Len(r1.heap) <= Len(heap)

\* A state where C5 matters: the heap is full at the largest capacity set,
\* after set_size shrank it or push evicted into it, and a push of a larger
\* item is possible.
C5_Witness ==
  /\ Clean
  /\ size = MaxCap
  /\ Len(heap) = size
  /\ \E item \in Items : item \notin DOMAIN index_map /\ comp(heap[1], item)

\* m is a comparator-maximum of the stored elements: what a scan of all of
\* them yields.
IsMax(m) == m \in Range(heap) /\ \A y \in Range(heap) : ~comp(m, y)

\* C6: on a non-empty heap get_max returns the comparator-maximum of the
\* stored elements, from the cache or from the scan.
C6_MaxScan ==
  (Clean /\ Len(heap) > 0) =>
     LET r == get_max(Self(0)) IN ~Throws(r) /\ IsMax(r.result)

\* C7: get_last raises Empty on an empty heap; otherwise it returns the item
\* most recently admitted by push, pushpop or replace if that item is still
\* stored, and raises NoLast if it is not.
C7_GetLast ==
  Clean =>
    LET r == get_last(Self(0))
    IN IF Len(heap) = 0 THEN r.exc = "Empty"
       ELSE IF admitted \in Range(heap)
       THEN ~Throws(r) /\ r.result = admitted
       ELSE r.exc = "NoLast"

\* The call left the fields of the object as they were before it.
SameObject(r) ==
  /\ r.heap = heap
  /\ r.index_map = index_map
  /\ r.size = size
  /\ r.last_item = last_item
  /\ r.last_item_set = last_item_set
  /\ r.max_item = max_item
  /\ r.max_item_set = max_item_set

\* C8: when the comparator fails at any comparison of the sift in push(item),
\* the object is left exactly as it was before the call.
C8_PushStrong ==
  Clean =>
    \A item \in Items, fuel \in 1 .. MaxFuel :
       LET r == push(Self(fuel), item)
       IN (Len(heap) # size /\ r.exc = "ObjCmpErr") => SameObject(r)

\* C9: when the comparator fails partway through pushpop, pop, replace,
\* remove or set_size, the object is left exactly as it was before the call.
C9_OthersStrong ==
  Clean =>
    \A item \in Items, fuel \in 1 .. MaxFuel, newsize \in 0 .. MaxCap :
       LET Safe(r) == r.exc = "ObjCmpErr" => SameObject(r)
       IN /\ Safe(pushpop(Self(fuel), item))
          /\ Safe(pop(Self(fuel)))
          /\ Safe(replace(Self(fuel), item))
          /\ Safe(remove(Self(fuel), item, FALSE))
          /\ Safe(set_size(Self(fuel), newsize))

\* C10: once the driver pops, the values popped so far are in
\* comparator-nondecreasing order, and together with the values still stored
\* they are the values pushed, each once; so when the heap is empty every
\* pushed value was popped exactly once, in order.
C10_HeapSort ==
  phase = "pop" =>
    /\ \A i, j \in 1 .. Len(out) : i < j => ~comp(out[j], out[i])
    /\ Range(out) \cup Range(heap) = pushed
    /\ Len(out) + Len(heap) = Cardinality(pushed)

\* A state where C10 matters: MaxLen values were pushed and all were popped.
C10_Witness ==
  /\ phase = "pop"
  /\ Cardinality(pushed) = MaxLen
  /\ Len(out) = MaxLen
  /\ Len(heap) = 0

\* The k largest (by the comparator) elements of S; all of S when it has
\* fewer than k.
KLargest(S, k) == {x \in S : Cardinality({y \in S : comp(x, y)}) < k}

\* The comparator-minimum of the stored elements.
MinStored == CHOOSE m \in Range(heap) : \A y \in Range(heap) : ~comp(y, m)

\* C11: in a heap of capacity K that only saw pushes of distinct values the
\* stored set is the K largest values pushed (all of them while fewer than K
\* were pushed), each stored once; on a full heap a push of a value below the
\* minimum changes nothing and a push of a value above it evicts exactly the
\* minimum.
C11_TopK ==
  phase = "topk" =>
    /\ ~ended
    /\ Range(heap) = KLargest(pushed, size)
    /\ Len(heap) = Cardinality(Range(heap))
    /\ \A item \in Items \ pushed :
          LET r == push(Self(0), item)
          IN (Len(heap) = size /\ Len(heap) > 0) =>
               /\ ~Throws(r)
               /\ comp(item, MinStored) => SameObject(r)
               /\ comp(MinStored, item) =>
                     /\ Range(r.heap) = (Range(heap) \ {MinStored}) \cup {item}
                     /\ Len(r.heap) = Len(heap)

\* A state where C11 matters: capacity 3 and five values pushed, so that two
\* pushes met a full heap.
C11_Witness ==
  /\ phase = "topk"
  /\ size = 3
  /\ Cardinality(pushed) = 5
  /\ Len(heap) = 3

\* C12: for an item that is not stored, when the heap is empty or its top
\* does not precede the item, pushpop(item) returns the item, changes no
\* field of the object and admits nothing.
C12_PushpopReject ==
  Clean =>
    \A item \in Items \ Range(heap) :
       (Len(heap) = 0 \/ ~comp(heap[1], item)) =>
          LET r == pushpop(Self(0), item)
          IN /\ ~Throws(r)
             /\ r.result = item
             /\ SameObject(r)
             /\ r.admit = NoItem

\* The comparator-minimum of a non-empty set.
MinOf(S) == CHOOSE m \in S : \A y \in S : ~comp(y, m)

\* C13: for an item that is not stored, on a non-empty heap whose top
\* precedes the item, pushpop(item) returns the prior minimum, keeps the
\* length, makes the stored set (old set minus the prior minimum) plus item,
\* and the new top is the smaller of the prior second-smallest and item.
C13_PushpopEvict ==
  Clean =>
    \A item \in Items \ Range(heap) :
       (Len(heap) > 0 /\ comp(heap[1], item)) =>
          LET r == pushpop(Self(0), item)
              rest == (Range(heap) \ {MinStored}) \cup {item}
          IN /\ ~Throws(r)
             /\ r.result = MinStored
             /\ Len(r.heap) = Len(heap)
             /\ Range(r.heap) = rest
             /\ r.heap[1] = MinOf(rest)

\* C14: push(item) and pushpop(item) of an item that is stored raise
\* AlreadyPresent and change no field of the object.
C14_DuplicateReject ==
  Clean =>
    \A item \in Range(heap) :
       LET r1 == push(Self(0), item)
           r2 == pushpop(Self(0), item)
       IN /\ r1.exc = "AlreadyPresent" /\ SameObject(r1)
          /\ r2.exc = "AlreadyPresent" /\ SameObject(r2)

\* A remove that raises NotFound and changes no field of the object.
NotFoundUnchanged(r) == r.exc = "NotFound" /\ SameObject(r)

\* C15: after remove(x) returns, x is no key of the index map and a second
\* remove(x) raises NotFound and changes nothing; remove of an item that is
\* no key of the index map raises NotFound and changes nothing, on an empty
\* heap too.
C15_RemoveComplete ==
  Clean =>
    \A x \in Items, crash \in BOOLEAN :
       LET r == remove(Self(0), x, crash)
           again == remove([r EXCEPT !.result = NoItem], x, crash)
       IN /\ ~Throws(r) =>
               /\ x \notin DOMAIN r.index_map
               /\ again.exc = "NotFound"
               /\ again.heap = r.heap
               /\ again.index_map = r.index_map
               /\ again.size = r.size
               /\ again.last_item = r.last_item
               /\ again.last_item_set = r.last_item_set
               /\ again.max_item = r.max_item
               /\ again.max_item_set = r.max_item_set
          /\ x \notin DOMAIN index_map => NotFoundUnchanged(r)

\* A state where C15 matters: removes of present keys have returned, and the
\* heap still holds an element that is not its last one to remove next.
C15_Witness ==
  /\ Clean
  /\ removes = MaxRemoves
  /\ Len(heap) = 3
  /\ IndexConsistent
  /\ \E x \in Range(heap) : x # heap[Len(heap)]

\* C16: on a heap of n distinct elements set_size(k) returns with capacity
\* k; for k < n exactly the k largest of the elements stay stored, for
\* k >= n nothing but the capacity changes.
C16_ShrinkLargest ==
  (Clean /\ Cardinality(Range(heap)) = Len(heap)) =>
    \A k \in 0 .. MaxLen :
       LET r == set_size(Self(0), k)
       IN /\ ~Throws(r)
          /\ r.size = k
          /\ k < Len(heap) =>
                /\ Len(r.heap) = k
                /\ Range(r.heap) = KLargest(Range(heap), k)
          /\ k >= Len(heap) =>
                /\ r.heap = heap
                /\ r.index_map = index_map
                /\ r.last_item = last_item
                /\ r.last_item_set = last_item_set
                /\ r.max_item = max_item
                /\ r.max_item_set = max_item_set

\* C17: on a non-empty heap replace(item) of an item that is not stored
\* returns the prior minimum, keeps the length, and makes the stored set (old
\* set minus the prior minimum) plus item.
C17_ReplaceResult ==
  (Clean /\ Len(heap) > 0) =>
    \A item \in Items \ Range(heap) :
       LET r == replace(Self(0), item)
       IN /\ ~Throws(r)
          /\ r.result = MinStored
          /\ Len(r.heap) = Len(heap)
          /\ Range(r.heap) = (Range(heap) \ {MinStored}) \cup {item}

\* C18: on a non-empty heap replace(item) raises AlreadyPresent exactly when
\* item is stored at a position other than the root; replace of the item at
\* the root does not raise it and returns with the contents unchanged.
C18_ReplaceCollision ==
  (Clean /\ Len(heap) > 0) =>
    \A item \in Items :
       LET r == replace(Self(0), item)
       IN /\ r.exc = "AlreadyPresent"
               <=> \E p \in Positions \ {0} : heap[p + 1] = item
          /\ item = heap[1] =>
               /\ ~Throws(r)
               /\ Len(r.heap) = Len(heap)
               /\ Range(r.heap) = Range(heap)

\* The call raised Empty and changed no field of the object.
EmptyUnchanged(r) == r.exc = "Empty" /\ SameObject(r)

\* C19: whenever the heap has no elements, pop, get_top, get_max, get_last
\* and replace (of any item, a key of the index map or not) raise Empty and
\* change no field of the object.
C19_EmptyErrors ==
  (Clean /\ Len(heap) = 0) =>
    /\ EmptyUnchanged(pop(Self(0)))
    /\ EmptyUnchanged(get_top(Self(0)))
    /\ EmptyUnchanged(get_max(Self(0)))
    /\ EmptyUnchanged(get_last(Self(0)))
    /\ \A item \in Items : EmptyUnchanged(replace(Self(0), item))

\* A state where C19 matters: the heap was emptied by calls, a record of the
\* last item is still set, and the index map still holds a key, so that a
\* replace of that key meets the emptiness check before the duplicate check.
C19_Witness ==
  /\ Clean
  /\ Len(heap) = 0
  /\ admitted # NoItem
  /\ last_item_set
  /\ DOMAIN index_map # {}

\* The number of positions of the sequence s that hold x.
Occ(x, s) == Cardinality({i \in 1 .. Len(s) : s[i] = x})

\* The references the heap holds change as membership does: for a handler
\* call c that returns to the interpreter, on every object the references
\* acquired less those released or handed to the caller are the positions the
\* object holds after the call less those it held before.
OwnedOnce(c) ==
  c.obj.exc \in {"none"} \cup c.caught =>
    \A x \in Items :
       Occ(x, c.incs) - Occ(x, c.decs) - (IF c.ret = x THEN 1 ELSE 0)
         = Occ(x, c.obj.heap) - Occ(x, heap)

\* C20: every binding call acquires one reference exactly on an object it
\* admits, none on a rejected or failed insertion, and releases or hands to
\* the caller one reference exactly on an object that it pops, removes or
\* evicts; so the heap holds 1 reference on each member and 0 on any other
\* object.
C20_Ownership ==
  Clean =>
    \A item \in Items, fuel \in 0 .. MaxFuel, newsize \in 0 .. MaxCap :
       /\ OwnedOnce(ExtHeapQueue_push(item, fuel))
       /\ OwnedOnce(ExtHeapQueue_pushpop(item, fuel))
       /\ OwnedOnce(ExtHeapQueue_pop(fuel))
       /\ OwnedOnce(ExtHeapQueue_remove(item, fuel, FALSE))
       /\ OwnedOnce(ExtHeapQueue_replace(item, fuel))
       /\ OwnedOnce(ExtHeapQueue_init(newsize, fuel))

\* The elements at the positions from .. Len(heap) - 1.
StoredFrom(from) == {heap[p + 1] : p \in from .. Len(heap) - 1}

\* m is a comparator-maximum of the set S.
IsMaxOf(m, S) == m \in S /\ \A y \in S : ~comp(m, y)

\* C21 as stated: with no maximum cached, get_max on a heap of length n >= 1
\* returns the maximum of the elements at the positions ceil(n/2) .. n-1, and
\* on a heap in heap order that is the maximum of all elements.
C21_LeafScanCeil ==
  (Clean /\ Len(heap) >= 1 /\ ~max_item_set) =>
     LET r == get_max(Self(0))
     IN /\ ~Throws(r)
        /\ IsMaxOf(r.result, StoredFrom((Len(heap) + 1) \div 2))
        /\ HeapOrder(heap) => IsMaxOf(r.result, Range(heap))

\* C21 amended: with no maximum cached, get_max on a heap of length n >= 1
\* returns the maximum of the elements at the positions floor(n/2) .. n-1,
\* and on a heap in heap order that is the maximum of all elements.
C21_LeafScanFloor ==
  (Clean /\ Len(heap) >= 1 /\ ~max_item_set) =>
     LET r == get_max(Self(0))
     IN /\ ~Throws(r)
        /\ IsMaxOf(r.result, StoredFrom(Len(heap) \div 2))
        /\ HeapOrder(heap) => IsMaxOf(r.result, Range(heap))

\* A state where C21 matters: no maximum is cached, the length is odd and
\* above 1, and the maximum is at position floor(n/2), above every element
\* at the positions from ceil(n/2) on.
C21_Witness ==
  /\ Clean
  /\ ~max_item_set
  /\ Len(heap) > 1
  /\ Len(heap) % 2 = 1
  /\ IsMaxOf(heap[(Len(heap) \div 2) + 1], Range(heap))
  /\ \A p \in (Len(heap) + 1) \div 2 .. Len(heap) - 1 :
        comp(heap[p + 1], heap[(Len(heap) \div 2) + 1])

\* C22: a get_max that scans leaves the max cache marked set and holding its
\* result; and whenever the max cache is marked set, the cached value is a
\* stored element.
C22_MaxCache ==
  Clean =>
    /\ (Len(heap) >= 1 /\ ~max_item_set) =>
          LET r == get_max(Self(0))
          IN ~Throws(r) => (r.max_item_set /\ r.max_item = r.result)
    /\ max_item_set => max_item \in Range(heap)

\* The errors of the core, the comparator's failure among them.
CoreErrors == {"Empty", "NoLast", "NotFound", "AlreadyPresent", "ObjCmpErr"}

\* The kind of host failure stated for a core error.
StatedKind(e) == IF e \in {"Empty", "NoLast"} THEN "KeyError" ELSE "ValueError"

\* A core error of the call surfaces as the stated kind of failure.
MappedAsStated(r, catches) ==
  r.exc \in CoreErrors => Surfaces(r, catches) = StatedKind(r.exc)

\* C23: in every binding operation each core error surfaces as the stated
\* failure: Empty and NoLast as KeyError, NotFound, AlreadyPresent and a
\* comparator failure as ValueError; none is returned as a value or left
\* uncaught.
C23_ErrorMapping ==
  Clean =>
    \A item \in Items, fuel \in 0 .. MaxFuel :
       /\ MappedAsStated(push(Self(fuel), item), catch_push)
       /\ MappedAsStated(pushpop(Self(fuel), item), catch_pushpop)
       /\ MappedAsStated(pop(Self(fuel)), catch_pop)
       /\ MappedAsStated(replace(Self(fuel), item), catch_replace)
       /\ MappedAsStated(remove(Self(fuel), item, FALSE), catch_remove)
       /\ MappedAsStated(get_top(Self(fuel)), catch_top)
       /\ MappedAsStated(get_last(Self(fuel)), catch_last)
       /\ MappedAsStated(get_max(Self(fuel)), catch_max)

\* C24: the driver that pushed its MaxLen distinct values and pops under the
\* guard get_size() != 0 is not ended by an exception (pop is not called on
\* an empty heap), and once the heap is drained the guard is false, so the
\* loop is left.
C24_DriverTerminates ==
  (phase = "pop" /\ Cardinality(pushed) = MaxLen) =>
    /\ ~ended
    /\ Len(heap) = 0 => size = 0

====
